---- MODULE Spec2Model ----
(***************************************************************************)
(* Model of include/RingBuffer.hpp: a single-producer/single-consumer      *)
(* ring buffer.  One producer thread calls push and one consumer thread    *)
(* calls pop; each call is split into the steps the other thread can       *)
(* observe: load of the own counter (with the thread-local cache test),    *)
(* acquire load of the other counter, slot access, release store.          *)
(*                                                                         *)
(* cachedReadIdx and cachedWriteIdx are `static thread_local` variables of *)
(* the member functions push and pop: there is one of each per thread, not *)
(* one per RingBuffer object, so every queue the producer thread pushes to *)
(* uses the same cachedReadIdx and every queue the consumer thread pops    *)
(* from uses the same cachedWriteIdx.                                      *)
(*                                                                         *)
(* The caller is the driver of src/main.cpp: queues are constructed one    *)
(* after another, and each thread works on a queue and later moves on to a *)
(* queue constructed after it (main pushes to and drains its own queue,    *)
(* then the benchmark runs on a new one).  Values pushed are 1, 2, 3, ...  *)
(* as in main.cpp, so that every pushed value is distinct.  The two        *)
(* threads together make at most MaxCalls calls under Spec and LongCalls   *)
(* calls under SpecLong; SpecSingle is the program with one queue only.    *)
(* Under SpecObserved a third thread calls empty() and full() on one       *)
(* queue while its producer and consumer run.  Under SpecRetry the two     *)
(* threads call push and pop in retry loops, as a benchmark does, moving   *)
(* PerQueue values through each queue, and both keep being scheduled.      *)
(***************************************************************************)
EXTENDS Integers, Sequences, FiniteSets, TLC

\* ------------------------------------------------------------------ bounds
Width == 2                \* bits of the counters (size_t in the source)
NumQueues == 2            \* RingBuffer objects that may be constructed
MaxRequest == 3           \* largest capacity passed to the constructor
MaxCalls == 6             \* calls of push and pop made by the two threads
MaxGarbage == 1           \* largest value read from an unassigned slot
PerQueue == 3             \* values moved through each queue by the
                          \* retrying threads (SpecRetry)

CounterMod == 2 ^ Width
LongCalls == MaxCalls + 2  \* the calls made in the longer runs (SpecLong)
RetryCalls == 2 * NumQueues * PerQueue + CounterMod  \* calls under SpecRetry
Queues == 1 .. NumQueues
Requests == {c \in 1 .. MaxRequest : c < CounterMod}
Uninit == -1              \* a slot of new T[cap_] that was never assigned
Indeterminate == 0 .. MaxGarbage     \* what reading such a slot may give

\* ------------------------------------------------- unsigned arithmetic
Add(a, b) == (a + b) % CounterMod
Sub(a, b) == (a - b + CounterMod) % CounterMod

RECURSIVE BitAnd(_, _)
BitAnd(a, b) ==
  IF a = 0 \/ b = 0 THEN 0
  ELSE 2 * BitAnd(a \div 2, b \div 2)
       + (IF a % 2 = 1 /\ b % 2 = 1 THEN 1 ELSE 0)

\* ------------------------------------------------------- getPowerOfTwo
RECURSIVE getPowerOfTwoLoop(_, _)
getPowerOfTwoLoop(capacity, newCapacity) ==
  IF capacity # 0
  THEN getPowerOfTwoLoop(capacity \div 2, (2 * newCapacity) % CounterMod)
  ELSE newCapacity

getPowerOfTwo(capacity) ==
  IF capacity <= 2 THEN 2
  ELSE getPowerOfTwoLoop(capacity \div 2, 1)

\* --------------------------------------------------------------- state
VARIABLES
  live,            \* queues constructed so far
  reqCapacity,     \* parameter capacity of the constructor that just ran,
                   \* 0 once another operation has taken a step
  cap_, mask_, buff_, readIdx_, writeIdx_,   \* the fields of each queue
  cachedReadIdx,   \* push's static thread_local, producer thread's copy
  cachedWriteIdx,  \* pop's static thread_local, consumer thread's copy
  ppc, pq, pval, pWriteIdx, pres, psteps,    \* producer thread, in push
  cpc, cq, cReadIdx, out, cres, csteps,      \* consumer thread, in pop
  nPush, nPop,     \* calls of push and of pop made so far
  pushed, popped,  \* history: values of successful pushes / pops per queue
  rt,              \* history: a push immediately followed by a pop
  obs              \* a third thread, in empty() or full(): its position,
                   \* the counter it loaded first and the value it got,
                   \* its result, and (history) the numbers of values the
                   \* queue held between its two loads

queueVars == <<live, cap_, mask_, buff_, readIdx_, writeIdx_>>
prodVars == <<cachedReadIdx, ppc, pq, pval, pWriteIdx, pres, psteps, nPush>>
consVars == <<cachedWriteIdx, cpc, cq, cReadIdx, out, cres, csteps, nPop>>
histVars == <<pushed, popped, rt>>
vars == <<reqCapacity, queueVars, prodVars, consVars, histVars, obs>>

RtOff == [phase |-> "off", q |-> 0, v |-> 0]

\* the third thread before its first call
ObsIdle ==
  [pc |-> "idle", fn |-> "none", q |-> 0, first |-> "none", val |-> 0,
   res |-> FALSE, held |-> {}]

\* o, after queue q came to hold `held` values: a call of empty() or
\* full() on q that is between its two loads has one more instant to
\* account for
Watched(o, q, held) ==
  IF o.pc = "second" /\ o.q = q
  THEN [o EXCEPT !.held = @ \cup {held}]
  ELSE o

Init ==
  /\ live = {}
  /\ reqCapacity = 0
  /\ cap_ = [q \in Queues |-> 0]
  /\ mask_ = [q \in Queues |-> 0]
  /\ buff_ = [q \in Queues |-> [i \in {} |-> Uninit]]
  /\ readIdx_ = [q \in Queues |-> 0]
  /\ writeIdx_ = [q \in Queues |-> 0]
  /\ cachedReadIdx = 0
  /\ cachedWriteIdx = 0
  /\ ppc = "idle" /\ pq = 0 /\ pval = 0 /\ pWriteIdx = 0
  /\ pres = FALSE /\ psteps = 0
  /\ cpc = "idle" /\ cq = 0 /\ cReadIdx = 0 /\ out = 0
  /\ cres = FALSE /\ csteps = 0
  /\ nPush = 0 /\ nPop = 0
  /\ pushed = [q \in Queues |-> <<>>]
  /\ popped = [q \in Queues |-> <<>>]
  /\ rt = RtOff
  /\ obs = ObsIdle

\* ---------------------------------------------------------- constructor
\* RingBuffer(size_t capacity)
Construct(q, capacity) ==
  /\ q \notin live
  /\ \A o \in Queues : o < q => o \in live
  /\ live' = live \cup {q}
  /\ reqCapacity' = capacity
  /\ cap_' = [cap_ EXCEPT ![q] = getPowerOfTwo(capacity)]
  /\ buff_' = [buff_ EXCEPT
                 ![q] = [i \in 0 .. (getPowerOfTwo(capacity) - 1) |-> Uninit]]
  /\ readIdx_' = [readIdx_ EXCEPT ![q] = 0]
  /\ writeIdx_' = [writeIdx_ EXCEPT ![q] = 0]
  /\ mask_' = [mask_ EXCEPT ![q] = getPowerOfTwo(capacity) - 1]
  /\ rt' = RtOff
  /\ UNCHANGED <<prodVars, consVars, pushed, popped>>
  /\ UNCHANGED obs

\* ----------------------------------------------------------------- push
\* the full test of push, on the local writeIdx and the cached readIdx
IsFull(writeIdx, readIdx, cap) == Sub(writeIdx, readIdx) = cap

\* bool push(T val): load of writeIdx_ (relaxed) and the test of the cache;
\* the caller makes at most maxCalls calls
PushLoad(q, maxCalls) ==
  /\ ppc = "idle"
  /\ reqCapacity' = 0
  /\ q \in live
  /\ q >= pq
  /\ nPush + nPop < maxCalls
  /\ nPush' = nPush + 1
  /\ pq' = q
  /\ pval' = nPush + 1
  /\ pWriteIdx' = writeIdx_[q]
  /\ ppc' = IF IsFull(writeIdx_[q], cachedReadIdx, cap_[q])
            THEN "acq" ELSE "slot"
  /\ psteps' = 1
  /\ rt' = IF cpc = "idle" /\ readIdx_[q] = writeIdx_[q]
           THEN [phase |-> "push", q |-> q, v |-> nPush + 1]
           ELSE RtOff
  /\ UNCHANGED <<queueVars, consVars, cachedReadIdx, pres,
                 pushed, popped>>
  /\ UNCHANGED obs

\* PushAcquire with the slot written before the full test is repeated
PushAcquire_StoresWhenFull ==
  /\ ppc = "acq"
  /\ reqCapacity' = 0
  /\ cachedReadIdx' = readIdx_[pq]
  /\ psteps' = psteps + 1
  /\ buff_' = [buff_ EXCEPT ![pq][BitAnd(pWriteIdx, mask_[pq])] = pval]
  /\ IF IsFull(pWriteIdx, readIdx_[pq], cap_[pq])
     THEN /\ ppc' = "idle"
          /\ pres' = FALSE
          /\ rt' = IF rt.phase = "push"
                   THEN [rt EXCEPT !.phase = "pushed"] ELSE RtOff
     ELSE /\ ppc' = "slot"
          /\ UNCHANGED <<pres, rt>>
  /\ UNCHANGED <<live, cap_, mask_, readIdx_, writeIdx_,
                 consVars, pq, pval, pWriteIdx, nPush, pushed, popped>>
  /\ UNCHANGED obs

\* PushAcquire that reads readIdx_ again until there is room
PushAcquire_Spins ==
  /\ ppc = "acq"
  /\ reqCapacity' = 0
  /\ cachedReadIdx' = readIdx_[pq]
  /\ psteps' = psteps + 1
  /\ ppc' = IF IsFull(pWriteIdx, readIdx_[pq], cap_[pq])
            THEN "acq" ELSE "slot"
  /\ UNCHANGED <<queueVars, consVars, pq, pval, pWriteIdx, pres, nPush,
                 histVars>>
  /\ UNCHANGED obs

\* cachedReadIdx = readIdx_.load(acquire); return false when still full
PushAcquire ==
  /\ ppc = "acq"
  /\ reqCapacity' = 0
  /\ cachedReadIdx' = readIdx_[pq]
  /\ psteps' = psteps + 1
  /\ IF IsFull(pWriteIdx, readIdx_[pq], cap_[pq])
     THEN /\ ppc' = "idle"
          /\ pres' = FALSE
          /\ rt' = IF rt.phase = "push"
                   THEN [rt EXCEPT !.phase = "pushed"] ELSE RtOff
     ELSE /\ ppc' = "slot"
          /\ UNCHANGED <<pres, rt>>
  /\ UNCHANGED <<queueVars, consVars, pq, pval, pWriteIdx, nPush,
                 pushed, popped>>
  /\ UNCHANGED obs

\* PushWrite with the slot index taken one too far
PushWrite_OffByOne ==
  /\ ppc = "slot"
  /\ reqCapacity' = 0
  /\ buff_' = [buff_ EXCEPT
                 ![pq][BitAnd(Add(pWriteIdx, 1), mask_[pq])] = pval]
  /\ ppc' = "store"
  /\ psteps' = psteps + 1
  /\ UNCHANGED <<live, cap_, mask_, readIdx_, writeIdx_,
                 consVars, cachedReadIdx, pq, pval, pWriteIdx, pres, nPush,
                 histVars>>
  /\ UNCHANGED obs

\* buff_[writeIdx & mask_] = val
PushWrite ==
  /\ ppc = "slot"
  /\ reqCapacity' = 0
  /\ buff_' = [buff_ EXCEPT ![pq][BitAnd(pWriteIdx, mask_[pq])] = pval]
  /\ ppc' = "store"
  /\ psteps' = psteps + 1
  /\ UNCHANGED <<live, cap_, mask_, readIdx_, writeIdx_,
                 consVars, cachedReadIdx, pq, pval, pWriteIdx, pres, nPush,
                 histVars>>
  /\ UNCHANGED obs

\* writeIdx_.store(writeIdx + 1, release); return true
PushStore ==
  /\ ppc = "store"
  /\ reqCapacity' = 0
  /\ writeIdx_' = [writeIdx_ EXCEPT ![pq] = Add(pWriteIdx, 1)]
  /\ ppc' = "idle"
  /\ pres' = TRUE
  /\ psteps' = psteps + 1
  /\ pushed' = [pushed EXCEPT ![pq] = Append(@, pval)]
  /\ rt' = IF rt.phase = "push"
           THEN [rt EXCEPT !.phase = "pushed"] ELSE RtOff
  /\ UNCHANGED <<live, cap_, mask_, buff_, readIdx_,
                 consVars, cachedReadIdx, pq, pval, pWriteIdx, nPush,
                 popped>>
  /\ obs' = Watched(obs, pq, Len(pushed[pq]) + 1 - Len(popped[pq]))

\* ------------------------------------------------------------------ pop
\* the empty test of pop, on the local readIdx and the cached writeIdx
IsEmpty(writeIdx, readIdx) == writeIdx = readIdx

\* bool pop(T &val): load of readIdx_ (relaxed) and the test of the cache;
\* the caller makes at most maxCalls calls
PopLoad(q, maxCalls) ==
  /\ cpc = "idle"
  /\ reqCapacity' = 0
  /\ q \in live
  /\ q >= cq
  /\ nPush + nPop < maxCalls
  /\ nPop' = nPop + 1
  /\ cq' = q
  /\ cReadIdx' = readIdx_[q]
  /\ cpc' = IF IsEmpty(cachedWriteIdx, readIdx_[q]) THEN "acq" ELSE "slot"
  /\ csteps' = 1
  /\ rt' = IF rt.phase = "pushed" /\ rt.q = q /\ ppc = "idle"
           THEN [rt EXCEPT !.phase = "pop"] ELSE RtOff
  /\ UNCHANGED <<queueVars, prodVars, cachedWriteIdx, out, cres,
                 pushed, popped>>
  /\ UNCHANGED obs

\* cachedWriteIdx = writeIdx_.load(acquire); return false when still empty
PopAcquire ==
  /\ cpc = "acq"
  /\ reqCapacity' = 0
  /\ cachedWriteIdx' = writeIdx_[cq]
  /\ csteps' = csteps + 1
  /\ IF IsEmpty(writeIdx_[cq], cReadIdx)
     THEN /\ cpc' = "idle"
          /\ cres' = FALSE
          /\ rt' = IF rt.phase = "pop"
                   THEN [rt EXCEPT !.phase = "done"] ELSE RtOff
     ELSE /\ cpc' = "slot"
          /\ UNCHANGED <<cres, rt>>
  /\ UNCHANGED <<queueVars, prodVars, cq, cReadIdx, out, nPop,
                 pushed, popped>>
  /\ UNCHANGED obs

\* val = buff_[readIdx & mask_]; a slot never assigned holds any value
PopRead ==
  /\ cpc = "slot"
  /\ reqCapacity' = 0
  /\ LET slot == buff_[cq][BitAnd(cReadIdx, mask_[cq])]
     IN IF slot = Uninit
        THEN out' \in Indeterminate
        ELSE out' = slot
  /\ cpc' = "store"
  /\ csteps' = csteps + 1
  /\ UNCHANGED <<queueVars, prodVars, cachedWriteIdx, cq, cReadIdx, cres,
                 nPop, histVars>>
  /\ UNCHANGED obs

\* PopStore clearing the slot it has popped, as a queue that destroys the
\* popped element would
PopStore_ClearsSlot ==
  /\ cpc = "store"
  /\ reqCapacity' = 0
  /\ readIdx_' = [readIdx_ EXCEPT ![cq] = Add(cReadIdx, 1)]
  /\ buff_' = [buff_ EXCEPT ![cq][BitAnd(cReadIdx, mask_[cq])] = Uninit]
  /\ cpc' = "idle"
  /\ cres' = TRUE
  /\ csteps' = csteps + 1
  /\ popped' = [popped EXCEPT ![cq] = Append(@, out)]
  /\ rt' = IF rt.phase = "pop"
           THEN [rt EXCEPT !.phase = "done"] ELSE RtOff
  /\ UNCHANGED <<live, cap_, mask_, writeIdx_,
                 prodVars, cachedWriteIdx, cq, cReadIdx, out, nPop,
                 pushed>>
  /\ obs' = Watched(obs, cq, Len(pushed[cq]) - Len(popped[cq]) - 1)

\* readIdx_.store(readIdx + 1, release); return true
PopStore ==
  /\ cpc = "store"
  /\ reqCapacity' = 0
  /\ readIdx_' = [readIdx_ EXCEPT ![cq] = Add(cReadIdx, 1)]
  /\ cpc' = "idle"
  /\ cres' = TRUE
  /\ csteps' = csteps + 1
  /\ popped' = [popped EXCEPT ![cq] = Append(@, out)]
  /\ rt' = IF rt.phase = "pop"
           THEN [rt EXCEPT !.phase = "done"] ELSE RtOff
  /\ UNCHANGED <<live, cap_, mask_, buff_, writeIdx_,
                 prodVars, cachedWriteIdx, cq, cReadIdx, out, nPop,
                 pushed>>
  /\ obs' = Watched(obs, cq, Len(pushed[cq]) - Len(popped[cq]) - 1)

\* ------------------------------------------------------ empty and full
\* the two counters; the operands of == and of - are unsequenced, so the
\* build decides which of the two loads of empty() and full() comes first
Counters == {"readIdx_", "writeIdx_"}

\* the third thread after the first of the two acquire loads of fn() on
\* queue q
AfterFirstLoad(fn, q, first) ==
  [pc |-> "second", fn |-> fn, q |-> q, first |-> first,
   val |-> IF first = "readIdx_" THEN readIdx_[q] ELSE writeIdx_[q],
   res |-> FALSE,
   held |-> {Len(pushed[q]) - Len(popped[q])}]

\* the values of the two counters as the call has loaded them, the second
\* one being loaded in this step
LoadedReadIdx ==
  IF obs.first = "readIdx_" THEN obs.val ELSE readIdx_[obs.q]
LoadedWriteIdx ==
  IF obs.first = "writeIdx_" THEN obs.val ELSE writeIdx_[obs.q]

\* bool empty(): first load
EmptyLoad(q, first) ==
  /\ obs.pc = "idle"
  /\ q \in live
  /\ reqCapacity' = 0
  /\ obs' = AfterFirstLoad("empty", q, first)
  /\ UNCHANGED <<queueVars, prodVars, consVars, histVars>>

\* bool empty(): second load, comparison and return
EmptyReturn ==
  /\ obs.pc = "second"
  /\ obs.fn = "empty"
  /\ reqCapacity' = 0
  /\ obs' = [obs EXCEPT !.pc = "idle",
                        !.res = (LoadedReadIdx = LoadedWriteIdx)]
  /\ UNCHANGED <<queueVars, prodVars, consVars, histVars>>

\* bool full(): first load
FullLoad(q, first) ==
  /\ obs.pc = "idle"
  /\ q \in live
  /\ reqCapacity' = 0
  /\ obs' = AfterFirstLoad("full", q, first)
  /\ UNCHANGED <<queueVars, prodVars, consVars, histVars>>

\* bool full(): second load, subtraction, comparison and return
FullReturn ==
  /\ obs.pc = "second"
  /\ obs.fn = "full"
  /\ reqCapacity' = 0
  /\ obs' = [obs EXCEPT !.pc = "idle",
                        !.res = IsFull(LoadedWriteIdx, LoadedReadIdx,
                                       cap_[obs.q])]
  /\ UNCHANGED <<queueVars, prodVars, consVars, histVars>>

\* ------------------------------------------------------- retry loops
\* while (!q.push(v)); -- the first call for the next value: the producer
\* pushes PerQueue values to a queue and then moves on to the next queue
PushNext(q) ==
  /\ nPush = 0 \/ pres = TRUE
  /\ Len(pushed[q]) < PerQueue
  /\ \A o \in Queues : o < q => Len(pushed[o]) >= PerQueue
  /\ PushLoad(q, RetryCalls)

\* while (!q.push(v)); -- the call after one that returned false: the same
\* value to the same queue
PushRetry ==
  /\ ppc = "idle"
  /\ nPush > 0
  /\ pres = FALSE
  /\ reqCapacity' = 0
  /\ pWriteIdx' = writeIdx_[pq]
  /\ ppc' = IF IsFull(writeIdx_[pq], cachedReadIdx, cap_[pq])
            THEN "acq" ELSE "slot"
  /\ psteps' = 1
  /\ rt' = RtOff
  /\ UNCHANGED <<queueVars, consVars, cachedReadIdx, pq, pval, pres, nPush,
                 pushed, popped, obs>>

\* while (!q.pop(v)); -- the first call for the next value: the consumer
\* pops PerQueue values from a queue and then moves on to the next queue;
\* as long as there is no next queue it keeps polling the one it is on
PopNext(q) ==
  /\ nPop = 0 \/ cres = TRUE
  /\ Len(popped[q]) < PerQueue \/ (q + 1) \notin live
  /\ \A o \in Queues : o < q => Len(popped[o]) >= PerQueue
  /\ PopLoad(q, RetryCalls)

\* while (!q.pop(v)); -- the call after one that returned false
PopRetry ==
  /\ cpc = "idle"
  /\ nPop > 0
  /\ cres = FALSE
  /\ reqCapacity' = 0
  /\ cReadIdx' = readIdx_[cq]
  /\ cpc' = IF IsEmpty(cachedWriteIdx, readIdx_[cq]) THEN "acq" ELSE "slot"
  /\ csteps' = 1
  /\ rt' = RtOff
  /\ UNCHANGED <<queueVars, prodVars, cachedWriteIdx, cq, out, cres, nPop,
                 pushed, popped, obs>>

\* ------------------------------------------------------- specification
ProducerStep == PushAcquire \/ PushWrite \/ PushStore
ConsumerStep == PopAcquire \/ PopRead \/ PopStore

Next ==
  \/ \E q \in Queues, capacity \in Requests : Construct(q, capacity)
  \/ \E q \in Queues : PushLoad(q, MaxCalls)
  \/ PushAcquire
  \/ PushWrite
  \/ PushStore
  \/ \E q \in Queues : PopLoad(q, MaxCalls)
  \/ PopAcquire
  \/ PopRead
  \/ PopStore

Spec == Init /\ [][Next]_vars

\* the same program making more calls
NextLong ==
  \/ \E q \in Queues, capacity \in Requests : Construct(q, capacity)
  \/ \E q \in Queues : PushLoad(q, LongCalls)
  \/ PushAcquire
  \/ PushWrite
  \/ PushStore
  \/ \E q \in Queues : PopLoad(q, LongCalls)
  \/ PopAcquire
  \/ PopRead
  \/ PopStore

SpecLong == Init /\ [][NextLong]_vars

\* the program that constructs a single queue
NextSingle == NextLong /\ live' \subseteq {1}
SpecSingle == Init /\ [][NextSingle]_vars

\* one queue, its producer and its consumer, and a third thread calling
\* empty() and full() on it
NextObserved ==
  \/ \E capacity \in Requests : Construct(1, capacity)
  \/ PushLoad(1, MaxCalls)
  \/ PushAcquire
  \/ PushWrite
  \/ PushStore
  \/ PopLoad(1, MaxCalls)
  \/ PopAcquire
  \/ PopRead
  \/ PopStore
  \/ \E first \in Counters : EmptyLoad(1, first)
  \/ EmptyReturn
  \/ \E first \in Counters : FullLoad(1, first)
  \/ FullReturn
SpecObserved == Init /\ [][NextObserved]_vars

\* the producer thread and the consumer thread each in its retry loop,
\* both scheduled again and again
ProducerRetries ==
  \/ \E q \in Queues : PushNext(q)
  \/ PushRetry
  \/ PushAcquire
  \/ PushWrite
  \/ PushStore
ConsumerRetries ==
  \/ \E q \in Queues : PopNext(q)
  \/ PopRetry
  \/ PopAcquire
  \/ PopRead
  \/ PopStore
NextRetry ==
  \/ \E q \in Queues, capacity \in Requests : Construct(q, capacity)
  \/ \E q \in Queues : PushNext(q)
  \/ PushRetry
  \/ PushAcquire
  \/ PushWrite
  \/ PushStore
  \/ \E q \in Queues : PopNext(q)
  \/ PopRetry
  \/ PopAcquire
  \/ PopRead
  \/ PopStore
SpecRetry ==
  /\ Init
  /\ [][NextRetry]_vars
  /\ WF_vars(ProducerRetries)
  /\ WF_vars(ConsumerRetries)

TypeOK ==
  /\ live \subseteq Queues
  /\ \A q \in Queues :
       /\ readIdx_[q] \in 0 .. (CounterMod - 1)
       /\ writeIdx_[q] \in 0 .. (CounterMod - 1)
       /\ DOMAIN buff_[q] = 0 .. (cap_[q] - 1)
  /\ ppc \in {"idle", "acq", "slot", "store"}
  /\ cpc \in {"idle", "acq", "slot", "store"}
  /\ obs.pc \in {"idle", "second"}
  /\ obs.fn \in {"none", "empty", "full"}
  /\ obs.res \in BOOLEAN

\* ------------------------------------------------------------- helpers
IsPrefix(s, t) ==
  /\ Len(s) <= Len(t)
  /\ \A i \in 1 .. Len(s) : s[i] = t[i]

Max(a, b) == IF a >= b THEN a ELSE b

\* the smallest power of two that is >= n
RECURSIVE NextPowerOfTwo(_, _)
NextPowerOfTwo(n, p) == IF p >= n THEN p ELSE NextPowerOfTwo(n, 2 * p)

\* the queue constructed last
Newest == CHOOSE q \in live : \A o \in live : o <= q

\* ---------------------------------------------------------------- C1
\* C1: for every queue, the values returned by the successful pops are a
\* prefix of the values of the successful pushes: same order, nothing
\* duplicated, skipped or lost.
C1_PoppedIsPrefixOfPushed ==
  \A q \in live : IsPrefix(popped[q], pushed[q])

\* ---------------------------------------------------------------- C2
\* C2: the realized capacity of a queue constructed with capacity c >= 1 is
\* the smallest power of two >= max(c, 2).
C2_CapacityRoundedUp ==
  reqCapacity # 0 => cap_[Newest] = NextPowerOfTwo(Max(reqCapacity, 2), 1)

\* ---------------------------------------------------------------- C3
\* the steps of the producer thread in a call of push that returns false
PushReturnsFalse == ppc = "acq" /\ ppc' = "idle"
PushEntersSlowPath == ppc = "idle" /\ ppc' = "acq"

\* C3: on a queue of realized capacity N from which nothing was popped, the
\* first N calls of push return true and every later call returns false: a
\* push fails only after N pushes succeeded, and no more than N succeed.
C3_ExactlyCapacityPushes ==
  /\ [](\A q \in live : popped[q] = <<>> => Len(pushed[q]) <= cap_[q])
  /\ [][(PushReturnsFalse /\ popped[pq] = <<>>)
          => Len(pushed[pq]) = cap_[pq]]_vars

\* --------------------------------------------------------------- C10
\* C10: in every state of every queue writeIdx_ - readIdx_, taken modulo
\* the counter width, is at most the capacity.
C10_OccupancyBound ==
  \A q \in live : Sub(writeIdx_[q], readIdx_[q]) <= cap_[q]

\* ---------------------------------------------------------------- C4
\* the values of the calls of push that returned false: every call so far
\* that is neither recorded as successful nor still running
PushedValues ==
  UNION {{pushed[q][i] : i \in 1 .. Len(pushed[q])} : q \in Queues}
Rejected ==
  {v \in 1 .. nPush : v \notin PushedValues /\ ~(ppc # "idle" /\ pval = v)}

\* C4: the steps of a push that returns false leave writeIdx_, readIdx_ and
\* every slot as they were, and no slot ever holds a rejected value, so no
\* pop can read one.
C4_FailedPushStoresNothing ==
  /\ [][(PushReturnsFalse \/ PushEntersSlowPath)
          => UNCHANGED <<writeIdx_, readIdx_, buff_>>]_vars
  /\ [](\A q \in live : \A i \in DOMAIN buff_[q] :
          buff_[q][i] \notin Rejected)

\* a queue was filled, a further push was rejected and the queue drained
C4_Witness ==
  \E q \in live :
    /\ ppc = "idle" /\ pres = FALSE /\ pq = q /\ nPush \in Rejected
    /\ Len(pushed[q]) = cap_[q]
    /\ popped[q] = pushed[q]

\* ---------------------------------------------------------------- C5
\* C5: a pop of a queue whose readIdx_ equals its writeIdx_ returns false
\* and leaves readIdx_, writeIdx_, the slots and the caller's variable as
\* they were.
C5_PopOnEmptyFails ==
  [][/\ (cpc = "idle" /\ cpc' # "idle" /\ readIdx_[cq'] = writeIdx_[cq'])
          => cpc' = "acq"
     /\ (cpc = "acq" /\ cpc' # "acq" /\ readIdx_[cq] = writeIdx_[cq])
          => (/\ cpc' = "idle"
              /\ cres' = FALSE
              /\ UNCHANGED <<readIdx_, writeIdx_, buff_, out>>)]_vars

\* ---------------------------------------------------------------- C6
\* the number of values pushed to q and not yet popped from it
Held(q) == Len(pushed[q]) - Len(popped[q])

Drained(q) == Len(pushed[q]) > 0 /\ popped[q] = pushed[q]

\* C7: once the pops have removed every value pushed, the next pop returns
\* false and the next push returns true.
C7_DrainedQueueIsEmptyAndUsable ==
  [][\A q \in live :
       Drained(q) =>
         /\ (cpc = "idle" /\ cpc' # "idle" /\ cq' = q) => cpc' = "acq"
         /\ (cpc = "acq" /\ cpc' # "acq" /\ cq = q)
              => (cpc' = "idle" /\ cres' = FALSE)
         /\ (ppc = "acq" /\ ppc' # "acq" /\ pq = q) => ppc' = "slot"]_vars

\* ---------------------------------------------------------------- C8
\* C8: when push(v) is called on a queue with readIdx_ = writeIdx_ and is
\* followed by a pop of that queue with no step of another operation in
\* between, both return true and the pop returns v.
C8_RoundTrip ==
  /\ rt.phase = "pushed" => pres = TRUE
  /\ rt.phase = "done" => (cres = TRUE /\ out = rt.v)

\* a round trip completed on a queue used after another queue
C8_Witness ==
  /\ rt.phase = "done"
  /\ rt.q > 1
  /\ popped[1] # <<>>

\* ---------------------------------------------------------------- C9
\* C9: a call of push or pop returns after at most four steps of its own
\* thread, and its next step can always be taken, whatever the state of
\* the other thread.
C9_WaitFree ==
  /\ psteps <= 4
  /\ csteps <= 4
  /\ ppc # "idle" => ENABLED ProducerStep
  /\ cpc # "idle" => ENABLED ConsumerStep

\* a push found the queue full while the consumer was in the middle of a pop
C9_Witness ==
  /\ ppc = "idle" /\ pres = FALSE /\ psteps = 2
  /\ cpc = "store"

\* --------------------------------------------------------------- C11
\* the values readIdx_ and writeIdx_ of queue q have held so far
ReadIdxValues(q) == {i % CounterMod : i \in 0 .. Len(popped[q])}
WriteIdxValues(q) == {i % CounterMod : i \in 0 .. Len(pushed[q])}

\* C11: the estimate a call of push or pop works with belongs to the queue
\* of the call: it is 0 or the result of an acquire load of that same
\* queue's counter, never a value left behind by a call on another queue.
C11_EstimateBelongsToQueue ==
  /\ ppc # "idle" => cachedReadIdx \in ReadIdxValues(pq)
  /\ cpc # "idle" => cachedWriteIdx \in WriteIdxValues(cq)

\* --------------------------------------------------------------- C12
\* C12: a push that takes the fast path (its test on cachedReadIdx says
\* "not full") runs on a queue holding fewer than cap_ values, and a pop
\* that takes the fast path (its test on cachedWriteIdx says "not empty")
\* runs on a queue holding at least one value.
C12_FastPathIsRight ==
  [][/\ (ppc = "idle" /\ ppc' = "slot") => Held(pq') < cap_[pq']
     /\ (cpc = "idle" /\ cpc' = "slot") => Held(cq') >= 1]_vars

\* --------------------------------------------------------------- C13
\* C13: the producer is about to write a slot only when readIdx_ is past
\* the slot's previous occupant, the consumer is about to read a slot only
\* when writeIdx_ is past it, and the two never stand at the same slot.
C13_SlotAccessIsExclusive ==
  /\ ppc = "slot" => Sub(pWriteIdx, readIdx_[pq]) < cap_[pq]
  /\ cpc = "slot" => Sub(writeIdx_[cq], cReadIdx) \in 1 .. cap_[cq]
  /\ ~(/\ ppc = "slot" /\ cpc = "slot" /\ pq = cq
       /\ BitAnd(pWriteIdx, mask_[pq]) = BitAnd(cReadIdx, mask_[cq]))

\* --------------------------------------------------------------- C14
\* the slot of queue q that the n-th successful push to q wrote
SlotOf(q, n) == BitAnd((n - 1) % CounterMod, mask_[q])

\* C14: writeIdx_ is stored only after the slot holds the value pushed and
\* readIdx_ only after the value was copied out; hence, in every state,
\* every published index that was not popped yet has its slot holding the
\* value pushed at that index.
C14_PublishedSlotsHoldTheirValues ==
  /\ [][/\ (ppc = "store" /\ ppc' = "idle")
             => buff_[pq][BitAnd(pWriteIdx, mask_[pq])] = pval
        /\ (cpc = "store" /\ cpc' = "idle")
             => popped'[cq] = Append(popped[cq], out)]_vars
  /\ [](\A q \in live :
          \A n \in (Len(popped[q]) + 1) .. Len(pushed[q]) :
            buff_[q][SlotOf(q, n)] = pushed[q][n])

\* --------------------------------------------------------------- C15
\* the abstract queue: the values pushed to q and not popped from it yet
Pending(q) ==
  IF Len(popped[q]) >= Len(pushed[q]) THEN <<>>
  ELSE SubSeq(pushed[q], Len(popped[q]) + 1, Len(pushed[q]))

\* the slots of q from readIdx_ up to writeIdx_, oldest first
Stored(q) ==
  [i \in 1 .. Sub(writeIdx_[q], readIdx_[q]) |->
     buff_[q][BitAnd(Add(readIdx_[q], i - 1), mask_[q])]]

\* C15: the ring buffer refines a bounded FIFO queue: its slots from
\* readIdx_ up to writeIdx_ are exactly the values pushed and not popped,
\* oldest first and never more than cap_ of them; a successful push
\* appends its value and a successful pop removes and returns the head.
C15_RefinesBoundedFifo ==
  /\ [](\A q \in live : Stored(q) = Pending(q) /\ Len(Pending(q)) <= cap_[q])
  /\ [][/\ (ppc = "store" /\ ppc' = "idle")
             => Stored(pq)' = Append(Stored(pq), pval)
        /\ (cpc = "store" /\ cpc' = "idle")
             => (/\ Stored(cq) # <<>>
                 /\ out = Head(Stored(cq))
                 /\ Stored(cq)' = Tail(Stored(cq)))]_vars

\* --------------------------------------------------------------- C16
\* a counter of queue q has wrapped around
Wrapped(q) == Len(pushed[q]) >= CounterMod \/ Len(popped[q]) >= CounterMod

\* C16: once a counter has wrapped around, the wrapped difference of the
\* counters still is the number of values held, at most cap_, the next
\* slot to write is still the one after the last written, and the pops
\* still return the values in the order of the pushes.
C16_CorrectAcrossWrapAround ==
  \A q \in live :
    Wrapped(q) =>
      /\ Sub(writeIdx_[q], readIdx_[q]) = Held(q)
      /\ Held(q) <= cap_[q]
      /\ BitAnd(writeIdx_[q], mask_[q]) = Len(pushed[q]) % cap_[q]
      /\ IsPrefix(popped[q], pushed[q])

\* --------------------------------------------------------------- C17
\* a step of a call of push, a step of a call of pop
ProducerMoves == ppc' # ppc
ConsumerMoves == cpc' # cpc

\* the slots of the existing queues whose content changes in the step
ChangedSlots ==
  {qi \in {<<q, i>> : q \in live, i \in 0 .. (CounterMod - 1)} :
     /\ qi[2] \in DOMAIN buff_[qi[1]]
     /\ buff_'[qi[1]][qi[2]] # buff_[qi[1]][qi[2]]}

\* C17: after construction writeIdx_ and the slots are modified only by
\* push and readIdx_ only by pop: no step of push changes readIdx_, no
\* step of pop changes writeIdx_ or any slot (the popped slot keeps its
\* value), and a push changes the content of no slot other than the one at
\* writeIdx & mask_ of its queue.
C17_SingleWriter ==
  [][live' = live =>
       /\ ProducerMoves => UNCHANGED readIdx_
       /\ ConsumerMoves => UNCHANGED <<writeIdx_, buff_>>
       /\ writeIdx_' # writeIdx_ => ProducerMoves
       /\ readIdx_' # readIdx_ => ConsumerMoves
       /\ ChangedSlots \subseteq {<<pq, BitAnd(pWriteIdx, mask_[pq])>>}
       /\ ChangedSlots # {} => (ppc = "slot" /\ ppc' = "store")]_vars

\* a pop has returned a value and the slot it came from still holds it,
\* while a push has just overwritten another slot of the same queue
C17_Witness ==
  /\ cpc = "idle" /\ cres = TRUE
  /\ buff_[cq][BitAnd(cReadIdx, mask_[cq])] = out
  /\ out = popped[cq][Len(popped[cq])]
  /\ ppc = "store" /\ pq = cq
  /\ BitAnd(pWriteIdx, mask_[pq]) # BitAnd(cReadIdx, mask_[cq])
  /\ Len(pushed[pq]) >= cap_[pq]

\* --------------------------------------------------------------- C18
\* a step of a call of empty() or full()
ObserverMoves == obs'.pc # obs.pc

\* C18: no step of empty() changes the queue or a thread-local estimate,
\* and the result of a call is true at some instant between its two loads:
\* if empty() returned true the queue held no value at one of these
\* instants, if it returned false the queue held at least one.
C18_EmptyIsTrueAtSomeInstant ==
  /\ [][(ObserverMoves /\ obs'.fn = "empty")
          => UNCHANGED <<queueVars, cachedReadIdx, cachedWriteIdx>>]_vars
  /\ []((obs.pc = "idle" /\ obs.fn = "empty") =>
          IF obs.res THEN \E h \in obs.held : h <= 0
                     ELSE \E h \in obs.held : h >= 1)

\* --------------------------------------------------------------- C19
\* C19: no step of full() changes the queue or a thread-local estimate,
\* and whichever counter it loads first, the result of a call is true at
\* some instant between its two loads: if full() returned true the queue
\* held exactly cap_ values at one of these instants, if it returned false
\* the queue held fewer.
C19_FullIsTrueAtSomeInstant ==
  /\ [][(ObserverMoves /\ obs'.fn = "full")
          => UNCHANGED <<queueVars, cachedReadIdx, cachedWriteIdx>>]_vars
  /\ []((obs.pc = "idle" /\ obs.fn = "full") =>
          IF obs.res THEN \E h \in obs.held : h = cap_[obs.q]
                     ELSE \E h \in obs.held : h < cap_[obs.q])

\* --------------------------------------------------------------- C20
\* the values pushed to, and the values popped from, queue q
PushedTo(q) == {pushed[q][i] : i \in 1 .. Len(pushed[q])}
PoppedFrom(q) == {popped[q][i] : i \in 1 .. Len(popped[q])}

\* C20: with both threads in their retry loops and both scheduled again
\* and again, every value pushed to a queue is eventually returned by a
\* pop of that queue, and every value the producer tries to push is
\* eventually pushed.
C20_ProgressUnderRetry ==
  /\ \A q \in Queues : \A v \in 1 .. (NumQueues * PerQueue) :
       (v \in PushedTo(q)) ~> (v \in PoppedFrom(q))
  /\ \A v \in 1 .. (NumQueues * PerQueue) :
       (ppc # "idle" /\ pval = v) ~> (v \in PushedValues)
====
